---- MODULE Spec2Model ----
(***************************************************************************)
(* Model of examples/rotary_encoder.rs: a timer-driven interrupt service   *)
(* routine that samples a quadrature rotary encoder, classifies the        *)
(* rotation against the previous sample kept in an atomic cell, and        *)
(* publishes the result through atomics read by the main loop.             *)
(*                                                                         *)
(* The platform timer driver (esp-idf) is outside the repository: each of  *)
(* its calls reports ESP_OK or a non-success code, chosen freely, and      *)
(* takes effect exactly when it reports ESP_OK.                            *)
(***************************************************************************)
EXTENDS Integers, Naturals, Sequences, FiniteSets, TLC

\* Bound on |number of Clockwise ticks - number of AntiClockwise ticks|;
\* larger than 128 so that the 8-bit counter wraps inside the bound.
MaxNet == 130

\* ------------------------------------------------------------------------
\* Values
\* ------------------------------------------------------------------------
Level == {"Low", "High"}

EncoderDirection == {"None", "Clockwise", "AntiClockwise"}

ESP_OK == "ESP_OK"

ESP_FAIL == "ESP_FAIL"

EspResult == {ESP_OK, ESP_FAIL}

\* Rate of the APB clock the timer counts (TIMER_SRC_CLK_APB), in Hz.
APB_CLK_FREQ == 80000000

\* i8 arithmetic of AtomicI8::fetch_add (wraps on overflow).
WrapI8(x) == ((x + 128) % 256) - 128

\* Variant: the two input lines taken in the other order.
convert_to_greycode_lines_exchanged(input_a, input_b) ==
    CASE input_b = "Low"  /\ input_a = "Low"  -> 0
      [] input_b = "Low"  /\ input_a = "High" -> 1
      [] input_b = "High" /\ input_a = "High" -> 2
      [] input_b = "High" /\ input_a = "Low"  -> 3

\* Variant: plain binary numbering of the pair in place of the Gray order.
convert_to_greycode_binary(input_a, input_b) ==
    CASE input_a = "Low"  /\ input_b = "Low"  -> 0
      [] input_a = "Low"  /\ input_b = "High" -> 1
      [] input_a = "High" /\ input_b = "Low"  -> 2
      [] input_a = "High" /\ input_b = "High" -> 3

\* fn convert_to_greycode(input_a, input_b) -> i8
convert_to_greycode(input_a, input_b) ==
    CASE input_a = "Low"  /\ input_b = "Low"  -> 0
      [] input_a = "Low"  /\ input_b = "High" -> 1
      [] input_a = "High" /\ input_b = "High" -> 2
      [] input_a = "High" /\ input_b = "Low"  -> 3

\* Variant: the operands of the subtraction exchanged.
classify_swapped(old_reading, new_reading) ==
    LET delta == new_reading - old_reading
    IN  IF delta = -1 \/ delta = 3 THEN "Clockwise"
        ELSE IF delta = 1 \/ delta = -3 THEN "AntiClockwise"
        ELSE "None"

\* Variant: the wrap-around arms 3 and -3 of the match left out.
classify_nowrap(old_reading, new_reading) ==
    LET delta == old_reading - new_reading
    IN  IF delta = -1 THEN "Clockwise"
        ELSE IF delta = 1 THEN "AntiClockwise"
        ELSE "None"

\* The match of get_rotation_direction on old_reading - new_reading.
classify(old_reading, new_reading) ==
    LET delta == old_reading - new_reading
    IN  IF delta = -1 \/ delta = 3 THEN "Clockwise"
        ELSE IF delta = 1 \/ delta = -3 THEN "AntiClockwise"
        ELSE "None"

\* ------------------------------------------------------------------------
\* State
\* ------------------------------------------------------------------------
VARIABLES
    PREVIOUS_READING,  \* static AtomicI8, last gray code seen by the ISR
    DIRECTION,         \* static AtomicI8, -1 / 0 / 1
    TEST,              \* static AtomicI8, diagnostic counter
    output,            \* level driven on GpioHandle.output
    isr_pc,            \* position of read_rotary_encoder_isr
    grey_code,         \* ISR local: the sample of the latest invocation
    old_reading,       \* get_rotation_direction local: value the swap returned
    dir,               \* ISR local: classification of the latest invocation
    main_pc,           \* position of main
    init_result,       \* what timer_initialize returned: "Pending", "Ok", "Err"
    timer_inited,      \* platform: timer_init took effect
    counter_reset,     \* platform: timer_set_counter_value took effect
    alarm_armed,       \* platform: timer_set_alarm_value took effect
    intr_enabled,      \* platform: timer_enable_intr took effect
    isr_bound,         \* platform: number of handlers bound to the timer
    timer_running,     \* platform: timer_start took effect
    timer_divider,     \* platform: divider of the configuration timer_init accepted (0: none)
    timer_alarm,       \* platform: alarm value timer_set_alarm_value set (0: none)
    levels,            \* ISR locals: the two levels get_level returned, << input_a, input_b >>
    step_failed,       \* history: some platform step of timer_initialize reported non-success
    last_levels,       \* history: the levels sampled by the invocation before the latest
    skipped,           \* history: some tick saw a delta of 2 or -2
    last_nonacw,       \* history: latest classification that was not AntiClockwise ("NoTick": none)
    output_before,     \* history: output level when the latest invocation began
    last_code,         \* history: sample of the invocation before the latest (-1: none)
    net,               \* history: Clockwise ticks minus AntiClockwise ticks
    hist               \* history: shape of the sample sequence so far

vars == << PREVIOUS_READING, DIRECTION, TEST, output, isr_pc, grey_code,
           old_reading, dir, main_pc, init_result, timer_inited,
           counter_reset, alarm_armed, intr_enabled, isr_bound,
           timer_running, step_failed, output_before, last_code,
           net, hist, timer_divider, timer_alarm, levels, last_levels,
           skipped, last_nonacw >>

shared_vars == << PREVIOUS_READING, DIRECTION, TEST, output >>

isr_vars == << isr_pc, grey_code, old_reading, dir, output_before, last_code,
               net, hist, levels, last_levels, skipped, last_nonacw >>

main_vars == << main_pc, init_result, step_failed >>

timer_vars == << timer_inited, counter_reset, alarm_armed, intr_enabled,
                 isr_bound, timer_running, timer_divider, timer_alarm >>

\* State of the Timer Source as the platform sees it.
TimerState ==
    IF timer_running THEN "Running"
    ELSE IF intr_enabled THEN "Armed"
    ELSE IF timer_inited /\ counter_reset /\ alarm_armed THEN "Configured"
    ELSE "Uninitialized"

Init ==
    /\ PREVIOUS_READING = 0
    /\ DIRECTION = -1
    /\ TEST = 0
    /\ output \in Level
    /\ isr_pc = "idle"
    /\ grey_code = 0
    /\ old_reading = 0
    /\ dir = "None"
    /\ main_pc = "timer_init"
    /\ init_result = "Pending"
    /\ timer_inited = FALSE
    /\ counter_reset = FALSE
    /\ alarm_armed = FALSE
    /\ intr_enabled = FALSE
    /\ isr_bound = 0
    /\ timer_running = FALSE
    /\ step_failed = FALSE
    /\ output_before = output
    /\ last_code = -1
    /\ net = 0
    /\ hist = "empty"
    /\ timer_divider = 0
    /\ timer_alarm = 0
    /\ levels = << "Low", "Low" >>
    /\ last_levels = << "Low", "Low" >>
    /\ skipped = FALSE
    /\ last_nonacw = "NoTick"

\* ------------------------------------------------------------------------
\* main: timer_initialize
\* ------------------------------------------------------------------------
\* timer_init(...); if result != ESP_OK { return Err(...) }
TimerInit(result) ==
    /\ main_pc = "timer_init"
    /\ IF result = ESP_OK
       THEN /\ timer_inited' = TRUE
            /\ timer_divider' = 20
            /\ main_pc' = "set_counter"
            /\ UNCHANGED << init_result, step_failed >>
       ELSE /\ init_result' = "Err"
            /\ step_failed' = TRUE
            /\ main_pc' = "bind"
            /\ UNCHANGED << timer_inited, timer_divider >>
    /\ UNCHANGED << counter_reset, alarm_armed, intr_enabled, isr_bound,
                    timer_running, timer_alarm >>
    /\ UNCHANGED shared_vars
    /\ UNCHANGED isr_vars

\* unsafe { timer_set_counter_value(group_number, timer_number, 0) };
TimerSetCounterValue(result) ==
    /\ main_pc = "set_counter"
    /\ counter_reset' = (result = ESP_OK)
    /\ step_failed' = (step_failed \/ result # ESP_OK)
    /\ main_pc' = "set_alarm"
    /\ UNCHANGED << init_result, timer_inited, alarm_armed, intr_enabled,
                    isr_bound, timer_running, timer_divider, timer_alarm >>
    /\ UNCHANGED shared_vars
    /\ UNCHANGED isr_vars

\* Variant: the alarm set for 10 ticks per second, 4,000,000 * 0.1.
TimerSetAlarmValue_ten_per_second(result) ==
    /\ main_pc = "set_alarm"
    /\ alarm_armed' = (result = ESP_OK)
    /\ timer_alarm' = IF result = ESP_OK THEN 400000 ELSE timer_alarm
    /\ step_failed' = (step_failed \/ result # ESP_OK)
    /\ main_pc' = "enable_intr"
    /\ UNCHANGED << init_result, timer_inited, counter_reset, intr_enabled,
                    isr_bound, timer_running, timer_divider >>
    /\ UNCHANGED shared_vars
    /\ UNCHANGED isr_vars

\* unsafe { timer_set_alarm_value(group_number, timer_number, 80000) };
TimerSetAlarmValue(result) ==
    /\ main_pc = "set_alarm"
    /\ alarm_armed' = (result = ESP_OK)
    /\ timer_alarm' = IF result = ESP_OK THEN 80000 ELSE timer_alarm
    /\ step_failed' = (step_failed \/ result # ESP_OK)
    /\ main_pc' = "enable_intr"
    /\ UNCHANGED << init_result, timer_inited, counter_reset, intr_enabled,
                    isr_bound, timer_running, timer_divider >>
    /\ UNCHANGED shared_vars
    /\ UNCHANGED isr_vars

\* unsafe { timer_enable_intr(group_number, timer_number) }; return Ok(());
TimerEnableIntr(result) ==
    /\ main_pc = "enable_intr"
    /\ intr_enabled' = (result = ESP_OK)
    /\ step_failed' = (step_failed \/ result # ESP_OK)
    /\ init_result' = "Ok"
    /\ main_pc' = "bind"
    /\ UNCHANGED << timer_inited, counter_reset, alarm_armed, isr_bound,
                    timer_running, timer_divider, timer_alarm >>
    /\ UNCHANGED shared_vars
    /\ UNCHANGED isr_vars

\* ------------------------------------------------------------------------
\* main: after timer_initialize (its result is only logged)
\* ------------------------------------------------------------------------
\* unsafe { timer_isr_callback_add(..., Some(read_rotary_encoder_isr), ...) };
TimerIsrCallbackAdd(result) ==
    /\ main_pc = "bind"
    /\ isr_bound' = IF result = ESP_OK THEN isr_bound + 1 ELSE isr_bound
    /\ main_pc' = "start"
    /\ UNCHANGED << init_result, step_failed, timer_inited, counter_reset,
                    alarm_armed, intr_enabled, timer_running, timer_divider,
                    timer_alarm >>
    /\ UNCHANGED shared_vars
    /\ UNCHANGED isr_vars

\* let _ = unsafe { timer_start(group_number, timer_number) };
TimerStart(result) ==
    /\ main_pc = "start"
    /\ timer_running' = (result = ESP_OK)
    /\ main_pc' = "loop"
    /\ UNCHANGED << init_result, step_failed, timer_inited,
                    counter_reset, alarm_armed, intr_enabled, isr_bound,
                    timer_divider, timer_alarm >>
    /\ UNCHANGED shared_vars
    /\ UNCHANGED isr_vars

\* Variant: the observer reads the counter with a swap that resets it.
ObserverLoad_reset ==
    /\ main_pc = "loop"
    /\ main_pc' = "sleep"
    /\ TEST' = 0
    /\ UNCHANGED << PREVIOUS_READING, DIRECTION, output >>
    /\ UNCHANGED << init_result, step_failed >>
    /\ UNCHANGED timer_vars
    /\ UNCHANGED isr_vars

\* loop { log::info!("TEST: {}", TEST.load(SeqCst)); ... }
ObserverLoad ==
    /\ main_pc = "loop"
    /\ main_pc' = "sleep"
    /\ UNCHANGED << init_result, step_failed >>
    /\ UNCHANGED timer_vars
    /\ UNCHANGED shared_vars
    /\ UNCHANGED isr_vars

\* thread::sleep(Duration::from_millis(1000));
ObserverSleep ==
    /\ main_pc = "sleep"
    /\ main_pc' = "loop"
    /\ UNCHANGED << init_result, step_failed >>
    /\ UNCHANGED timer_vars
    /\ UNCHANGED shared_vars
    /\ UNCHANGED isr_vars

\* ------------------------------------------------------------------------
\* read_rotary_encoder_isr, one shared access per step
\* ------------------------------------------------------------------------
\* The timer delivers a tick to the bound handler while it runs.
TickEnabled ==
    /\ isr_bound > 0
    /\ timer_running

\* Tally of a classification: +1 Clockwise, -1 AntiClockwise, 0 None.
Tally(d) == IF d = "Clockwise" THEN 1 ELSE IF d = "AntiClockwise" THEN -1 ELSE 0

\* The encoder positions the bound lets a tick sample: those that keep the
\* tally of the ticks within MaxNet.
InBound(c) ==
    LET n == net + Tally(classify(PREVIOUS_READING, c))
    IN  n <= MaxNet /\ n >= -MaxNet

NextHist(h, prev, c) ==
    CASE h = "empty"  -> IF c = 0 THEN "first0" ELSE "other"
      [] h = "first0" -> IF c = 1 THEN "fwd" ELSE IF c = 3 THEN "rev" ELSE "other"
      [] h = "fwd"    -> IF c = (prev + 1) % 4 THEN "fwd" ELSE "other"
      [] h = "rev"    -> IF c = (prev + 3) % 4 THEN "rev" ELSE "other"
      [] OTHER        -> "other"

\* let grey_code = convert_to_greycode(input_a.get_level(), input_b.get_level());
IsrSample(input_a, input_b) ==
    /\ isr_pc = "idle"
    /\ TickEnabled
    /\ InBound(convert_to_greycode(input_a, input_b))
    /\ levels' = << input_a, input_b >>
    /\ grey_code' = convert_to_greycode(input_a, input_b)
    /\ last_code' = IF hist = "empty" THEN -1 ELSE grey_code
    /\ last_levels' = levels
    /\ hist' = NextHist(hist, grey_code, grey_code')
    /\ output_before' = output
    /\ isr_pc' = "resolve"
    /\ UNCHANGED << old_reading, dir, net, skipped, last_nonacw >>
    /\ UNCHANGED shared_vars
    /\ UNCHANGED main_vars
    /\ UNCHANGED timer_vars

\* Variant: PREVIOUS_READING is replaced only when a direction was determined.
get_rotation_direction_keep_on_none ==
    /\ isr_pc = "resolve"
    /\ old_reading' = PREVIOUS_READING
    /\ dir' = classify(old_reading', grey_code)
    /\ PREVIOUS_READING' = IF dir' = "None" THEN PREVIOUS_READING ELSE grey_code
    /\ net' = net + Tally(dir')
    /\ skipped' = (skipped \/ old_reading' - grey_code \in {2, -2})
    /\ last_nonacw' = IF dir' = "AntiClockwise" THEN last_nonacw ELSE dir'
    /\ isr_pc' = "store"
    /\ UNCHANGED << DIRECTION, TEST, output >>
    /\ UNCHANGED << grey_code, output_before, last_code, hist, levels,
                    last_levels >>
    /\ UNCHANGED main_vars
    /\ UNCHANGED timer_vars

\* Variant: a load in place of the swap, PREVIOUS_READING is never replaced.
get_rotation_direction_load_only ==
    /\ isr_pc = "resolve"
    /\ old_reading' = PREVIOUS_READING
    /\ dir' = classify(old_reading', grey_code)
    /\ net' = net + Tally(dir')
    /\ skipped' = (skipped \/ old_reading' - grey_code \in {2, -2})
    /\ last_nonacw' = IF dir' = "AntiClockwise" THEN last_nonacw ELSE dir'
    /\ isr_pc' = "store"
    /\ UNCHANGED << PREVIOUS_READING, DIRECTION, TEST, output >>
    /\ UNCHANGED << grey_code, output_before, last_code, hist, levels,
                    last_levels >>
    /\ UNCHANGED main_vars
    /\ UNCHANGED timer_vars

\* Variant: a store followed by a load, the old value is read after it was replaced.
get_rotation_direction_store_then_load ==
    /\ isr_pc = "resolve"
    /\ PREVIOUS_READING' = grey_code
    /\ old_reading' = grey_code
    /\ dir' = classify(old_reading', grey_code)
    /\ net' = net + Tally(dir')
    /\ skipped' = (skipped \/ old_reading' - grey_code \in {2, -2})
    /\ last_nonacw' = IF dir' = "AntiClockwise" THEN last_nonacw ELSE dir'
    /\ isr_pc' = "store"
    /\ UNCHANGED << DIRECTION, TEST, output >>
    /\ UNCHANGED << grey_code, output_before, last_code, hist, levels,
                    last_levels >>
    /\ UNCHANGED main_vars
    /\ UNCHANGED timer_vars

\* let dir = get_rotation_direction(grey_code);
\*   let old_reading = PREVIOUS_READING.swap(new_reading, SeqCst);
\*   match old_reading - new_reading { ... }
get_rotation_direction ==
    /\ isr_pc = "resolve"
    /\ old_reading' = PREVIOUS_READING
    /\ PREVIOUS_READING' = grey_code
    /\ dir' = classify(old_reading', grey_code)
    /\ net' = net + Tally(dir')
    /\ skipped' = (skipped \/ old_reading' - grey_code \in {2, -2})
    /\ last_nonacw' = IF dir' = "AntiClockwise" THEN last_nonacw ELSE dir'
    /\ isr_pc' = "store"
    /\ UNCHANGED << DIRECTION, TEST, output >>
    /\ UNCHANGED << grey_code, output_before, last_code, hist, levels,
                    last_levels >>
    /\ UNCHANGED main_vars
    /\ UNCHANGED timer_vars

\* Variant: the stored codes of Clockwise and AntiClockwise exchanged.
IsrStoreDirection_exchanged ==
    /\ isr_pc = "store"
    /\ DIRECTION' = CASE dir = "Clockwise"     -> 1
                      [] dir = "AntiClockwise" -> 0
                      [] dir = "None"          -> -1
    /\ isr_pc' = IF dir = "None" THEN "drive" ELSE "count"
    /\ UNCHANGED << PREVIOUS_READING, TEST, output >>
    /\ UNCHANGED << grey_code, old_reading, dir, output_before, last_code,
                    net, hist, levels, last_levels, skipped, last_nonacw >>
    /\ UNCHANGED main_vars
    /\ UNCHANGED timer_vars

\* Variant: the None arm stores 0, the code of Clockwise.
IsrStoreDirection_none_as_zero ==
    /\ isr_pc = "store"
    /\ DIRECTION' = CASE dir = "Clockwise"     -> 0
                      [] dir = "AntiClockwise" -> 1
                      [] dir = "None"          -> 0
    /\ isr_pc' = IF dir = "None" THEN "drive" ELSE "count"
    /\ UNCHANGED << PREVIOUS_READING, TEST, output >>
    /\ UNCHANGED << grey_code, old_reading, dir, output_before, last_code,
                    net, hist, levels, last_levels, skipped, last_nonacw >>
    /\ UNCHANGED main_vars
    /\ UNCHANGED timer_vars

\* DIRECTION.store(0 | 1 | -1, SeqCst)
IsrStoreDirection ==
    /\ isr_pc = "store"
    /\ DIRECTION' = CASE dir = "Clockwise"     -> 0
                      [] dir = "AntiClockwise" -> 1
                      [] dir = "None"          -> -1
    /\ isr_pc' = IF dir = "None" THEN "drive" ELSE "count"
    /\ UNCHANGED << PREVIOUS_READING, TEST, output >>
    /\ UNCHANGED << grey_code, old_reading, dir, output_before, last_code,
                    net, hist, levels, last_levels, skipped, last_nonacw >>
    /\ UNCHANGED main_vars
    /\ UNCHANGED timer_vars

\* Variant: fetch_add without wrap-around, the counter saturates at the i8 limits.
IsrCount_saturating ==
    /\ isr_pc = "count"
    /\ TEST' = LET t == TEST + (IF dir = "Clockwise" THEN 1 ELSE -1)
               IN  IF t > 127 THEN 127 ELSE IF t < -128 THEN -128 ELSE t
    /\ isr_pc' = IF dir = "Clockwise" THEN "drive" ELSE "idle"
    /\ UNCHANGED << PREVIOUS_READING, DIRECTION, output >>
    /\ UNCHANGED << grey_code, old_reading, dir, output_before, last_code,
                    net, hist, levels, last_levels, skipped, last_nonacw >>
    /\ UNCHANGED main_vars
    /\ UNCHANGED timer_vars

\* Variant: the counter is guarded by a lock the main loop holds while it logs.
IsrCount_locked ==
    /\ isr_pc = "count"
    /\ main_pc = "sleep"
    /\ TEST' = WrapI8(TEST + (IF dir = "Clockwise" THEN 1 ELSE -1))
    /\ isr_pc' = IF dir = "Clockwise" THEN "drive" ELSE "idle"
    /\ UNCHANGED << PREVIOUS_READING, DIRECTION, output >>
    /\ UNCHANGED << grey_code, old_reading, dir, output_before, last_code,
                    net, hist, levels, last_levels, skipped, last_nonacw >>
    /\ UNCHANGED main_vars
    /\ UNCHANGED timer_vars

\* Variant: both arms add 1, the AntiClockwise arm copied from the Clockwise one.
IsrCount_always_increment ==
    /\ isr_pc = "count"
    /\ TEST' = WrapI8(TEST + 1)
    /\ isr_pc' = IF dir = "Clockwise" THEN "drive" ELSE "idle"
    /\ UNCHANGED << PREVIOUS_READING, DIRECTION, output >>
    /\ UNCHANGED << grey_code, old_reading, dir, output_before, last_code,
                    net, hist, levels, last_levels, skipped, last_nonacw >>
    /\ UNCHANGED main_vars
    /\ UNCHANGED timer_vars

\* Variant: the AntiClockwise arm lacks its fetch_add.
IsrCount_skip_on_anticlockwise ==
    /\ isr_pc = "count"
    /\ TEST' = IF dir = "Clockwise" THEN WrapI8(TEST + 1) ELSE TEST
    /\ isr_pc' = IF dir = "Clockwise" THEN "drive" ELSE "idle"
    /\ UNCHANGED << PREVIOUS_READING, DIRECTION, output >>
    /\ UNCHANGED << grey_code, old_reading, dir, output_before, last_code,
                    net, hist, levels, last_levels, skipped, last_nonacw >>
    /\ UNCHANGED main_vars
    /\ UNCHANGED timer_vars

\* Variant: the AntiClockwise arm also drives the output line (low).
IsrCount_drive_on_anticlockwise ==
    /\ isr_pc = "count"
    /\ TEST' = WrapI8(TEST + (IF dir = "Clockwise" THEN 1 ELSE -1))
    /\ isr_pc' = "drive"
    /\ UNCHANGED << PREVIOUS_READING, DIRECTION, output >>
    /\ UNCHANGED << grey_code, old_reading, dir, output_before, last_code,
                    net, hist, levels, last_levels, skipped, last_nonacw >>
    /\ UNCHANGED main_vars
    /\ UNCHANGED timer_vars

\* let _ = TEST.fetch_add(1 | -1, SeqCst);  (the AntiClockwise arm then returns true)
IsrCount ==
    /\ isr_pc = "count"
    /\ TEST' = WrapI8(TEST + (IF dir = "Clockwise" THEN 1 ELSE -1))
    /\ isr_pc' = IF dir = "Clockwise" THEN "drive" ELSE "idle"
    /\ UNCHANGED << PREVIOUS_READING, DIRECTION, output >>
    /\ UNCHANGED << grey_code, old_reading, dir, output_before, last_code,
                    net, hist, levels, last_levels, skipped, last_nonacw >>
    /\ UNCHANGED main_vars
    /\ UNCHANGED timer_vars

\* Variant: set_high and set_low exchanged between the two arms.
IsrDriveOutput_inverted ==
    /\ isr_pc = "drive"
    /\ output' = IF dir = "Clockwise" THEN "Low" ELSE "High"
    /\ isr_pc' = "idle"
    /\ UNCHANGED << PREVIOUS_READING, DIRECTION, TEST >>
    /\ UNCHANGED << grey_code, old_reading, dir, output_before, last_code,
                    net, hist, levels, last_levels, skipped, last_nonacw >>
    /\ UNCHANGED main_vars
    /\ UNCHANGED timer_vars

\* pins.output.set_high() | pins.output.set_low(); true
IsrDriveOutput ==
    /\ isr_pc = "drive"
    /\ output' = IF dir = "Clockwise" THEN "High" ELSE "Low"
    /\ isr_pc' = "idle"
    /\ UNCHANGED << PREVIOUS_READING, DIRECTION, TEST >>
    /\ UNCHANGED << grey_code, old_reading, dir, output_before, last_code,
                    net, hist, levels, last_levels, skipped, last_nonacw >>
    /\ UNCHANGED main_vars
    /\ UNCHANGED timer_vars

\* ------------------------------------------------------------------------
Next ==
    \/ \E r \in EspResult : TimerInit(r)
    \/ \E r \in EspResult : TimerSetCounterValue(r)
    \/ \E r \in EspResult : TimerSetAlarmValue(r)
    \/ \E r \in EspResult : TimerEnableIntr(r)
    \/ \E r \in EspResult : TimerIsrCallbackAdd(r)
    \/ \E r \in EspResult : TimerStart(r)
    \/ ObserverLoad
    \/ ObserverSleep
    \/ \E a \in Level, b \in Level : IsrSample(a, b)
    \/ get_rotation_direction
    \/ IsrStoreDirection
    \/ IsrCount
    \/ IsrDriveOutput

Spec == Init /\ [][Next]_vars

\* The hardware timer keeps ticking and the interrupt context runs the handler
\* to its end; main is a thread the scheduler owes nothing.
FairSpec ==
    /\ Spec
    /\ WF_vars(\E a \in Level, b \in Level : IsrSample(a, b))
    /\ WF_vars(get_rotation_direction)
    /\ WF_vars(IsrStoreDirection)
    /\ WF_vars(IsrCount)
    /\ WF_vars(IsrDriveOutput)

TypeOK ==
    /\ PREVIOUS_READING \in 0..3
    /\ DIRECTION \in {-1, 0, 1}
    /\ TEST \in -128..127
    /\ output \in Level
    /\ dir \in EncoderDirection

\* ------------------------------------------------------------------------
\* Properties
\* ------------------------------------------------------------------------
\* No invocation of the handler is in progress and at least one has completed.
Completed == isr_pc = "idle" /\ hist # "empty"

\* C1: for the previous code c1 held in PREVIOUS_READING and the new code c2,
\* get_rotation_direction(c2) returns Clockwise iff c1 - c2 is -1 or 3,
\* AntiClockwise iff c1 - c2 is 1 or -3, and None iff it is 0, 2 or -2.
C1_DeltaTable ==
    [][ (isr_pc = "resolve" /\ isr_pc' = "store") =>
          LET c1 == PREVIOUS_READING
              c2 == grey_code
          IN  /\ c1 \in 0..3
              /\ c2 \in 0..3
              /\ (dir' = "Clockwise")     <=> (c1 - c2 \in {-1, 3})
              /\ (dir' = "AntiClockwise") <=> (c1 - c2 \in {1, -3})
              /\ (dir' = "None")          <=> (c1 - c2 \in {0, 2, -2}) ]_vars

\* A call with previous code 3 and new code 0 (delta 3) has returned Clockwise.
C1_Witness ==
    isr_pc = "store" /\ old_reading = 3 /\ grey_code = 0 /\ dir = "Clockwise"

\* C2: whenever an invocation has completed, PREVIOUS_READING is the gray code
\* sampled by the most recent invocation, a value in 0..3, whatever it classified.
C2_PreviousIsLatestSample ==
    Completed => (PREVIOUS_READING = grey_code /\ PREVIOUS_READING \in 0..3)

\* An invocation that skipped two steps (classified None) has completed and
\* left its sample in PREVIOUS_READING.
C2_Witness ==
    /\ Completed
    /\ dir = "None"
    /\ old_reading # grey_code
    /\ PREVIOUS_READING = grey_code

\* C3 as stated: with no invocation in progress TEST equals the number of
\* Clockwise invocations minus the number of AntiClockwise invocations.
C3_CounterIsDifference ==
    isr_pc = "idle" => TEST = net

\* C3 amended: with no invocation in progress TEST is that difference reduced
\* to the signed 8-bit range by two's-complement wrap-around, and equals the
\* difference itself while the difference lies in -128..127.
C3_CounterIsDifferenceMod256 ==
    isr_pc = "idle" =>
        /\ TEST \in -128..127
        /\ (TEST - net) % 256 = 0
        /\ (net \in -128..127 => TEST = net)

\* 128 more Clockwise than AntiClockwise invocations have completed and the
\* counter has wrapped to -128.
C3_Witness ==
    isr_pc = "idle" /\ net = 128 /\ TEST = -128

\* The code DIRECTION holds for a direction: -1 None, 0 Clockwise, 1 AntiClockwise.
DirectionCode(d) ==
    IF d = "Clockwise" THEN 0 ELSE IF d = "AntiClockwise" THEN 1 ELSE -1

\* C4: DIRECTION encodes None before the first tick; whenever no invocation is
\* in progress it encodes the direction classified by the most recently
\* completed invocation; it never holds a value other than -1, 0, 1.
C4_DirectionSignal ==
    /\ DIRECTION \in {-1, 0, 1}
    /\ (hist = "empty" => (DIRECTION = -1 /\ PREVIOUS_READING = 0 /\ TEST = 0))
    /\ (Completed => DIRECTION = DirectionCode(dir))

\* An AntiClockwise invocation has completed and DIRECTION holds 1.
C4_Witness ==
    Completed /\ dir = "AntiClockwise" /\ DIRECTION = 1

\* C5: a completed invocation has left the output line high when it classified
\* Clockwise, low when None, and as it was before the invocation when
\* AntiClockwise.
C5_OutputLine ==
    Completed =>
        /\ (dir = "Clockwise"     => output = "High")
        /\ (dir = "None"          => output = "Low")
        /\ (dir = "AntiClockwise" => output = output_before)

\* An AntiClockwise invocation has completed on a line that was high and still is.
C5_Witness ==
    Completed /\ dir = "AntiClockwise" /\ output_before = "High" /\ output = "High"

\* C6: once timer_initialize has returned an error, main goes no further: it
\* binds no handler and starts no timer, and no handler invocation occurs.
C6_NoArmingAfterInitError ==
    init_result = "Err" =>
        /\ main_pc = "bind"
        /\ isr_bound = 0
        /\ ~timer_running
        /\ hist = "empty"

\* C7: timer_initialize returns an error exactly when one of the four platform
\* steps reported non-success.
C7_ErrorIffStepFailed ==
    init_result # "Pending" => ((init_result = "Err") <=> step_failed)

Rank(st) ==
    CASE st = "Uninitialized" -> 0
      [] st = "Configured"    -> 1
      [] st = "Armed"         -> 2
      [] st = "Running"       -> 3

\* C8: the Timer Source only moves forward, one state at a time, through
\* Uninitialized, Configured, Armed, Running; the handler is bound once, while
\* the timer is Armed, and the timer is started only with a handler bound.
C8_TimerStateMachine ==
    [][ /\ Rank(TimerState') \in {Rank(TimerState), Rank(TimerState) + 1}
        /\ (isr_bound' # isr_bound =>
              (isr_bound = 0 /\ isr_bound' = 1 /\ TimerState = "Armed"))
        /\ (timer_running' /\ ~timer_running => isr_bound = 1) ]_vars

\* C9: from the initial state, a sample sequence that starts with code 0 and
\* then advances by +1 modulo 4 at every tick classifies None first and
\* Clockwise ever after; one that advances by -1 modulo 4 classifies None
\* first and AntiClockwise ever after.
C9_SequenceProperty ==
    isr_pc # "resolve" =>
        /\ (hist = "first0" => dir = "None")
        /\ (hist = "fwd"    => dir = "Clockwise")
        /\ (hist = "rev"    => dir = "AntiClockwise")

\* The sequence 0,1,2,3,0,1,2,3 has been fed: seven Clockwise ticks, the wrap
\* from 3 to 0 among them.
C9_Witness ==
    /\ isr_pc = "idle"
    /\ hist = "fwd"
    /\ grey_code = 3
    /\ net = 7
    /\ dir = "Clockwise"

\* C10: when an invocation resolves the code the invocation before it
\* resolved, it classifies None and PREVIOUS_READING still equals that code.
C10_SameCodeTwice ==
    (isr_pc # "resolve" /\ last_code = grey_code) =>
        (dir = "None" /\ PREVIOUS_READING = grey_code)

\* Code 2 was resolved twice in a row, the first time with a direction.
C10_Witness ==
    /\ isr_pc = "store"
    /\ last_code = 2
    /\ grey_code = 2
    /\ dir = "None"
    /\ net # 0

\* The fixed table of the data model: (Low,Low)=0, (Low,High)=1,
\* (High,High)=2, (High,Low)=3.
TableCode(pair) ==
    IF pair = << "Low", "Low" >> THEN 0
    ELSE IF pair = << "Low", "High" >> THEN 1
    ELSE IF pair = << "High", "High" >> THEN 2
    ELSE IF pair = << "High", "Low" >> THEN 3
    ELSE -1

\* C11: every pair of levels the handler samples is converted to the code the
\* fixed table gives, a value in 0..3, and two samples get the same code
\* exactly when they are the same pair of levels.
C11_GrayCodeBijection ==
    hist # "empty" =>
        /\ levels \in Level \X Level
        /\ grey_code \in 0..3
        /\ grey_code = TableCode(levels)
        /\ (last_code # -1 =>
              ((grey_code = last_code) <=> (levels = last_levels)))

\* (Low,High) then (High,Low) were sampled and converted to 1 and 3.
C11_Witness ==
    /\ Completed
    /\ last_levels = << "Low", "High" >>
    /\ last_code = 1
    /\ levels = << "High", "Low" >>
    /\ grey_code = 3

\* A step of the observer loop of main: the load of TEST or the sleep.
ObserverStep ==
    main_pc \in {"loop", "sleep"} /\ main_pc' # main_pc

\* C12: every step of the observer loop, wherever the handler stands, leaves
\* PREVIOUS_READING, DIRECTION, TEST and the output line unchanged, and leaves
\* the handler (its position, its sampled levels, its classification) as it was.
C12_ObserverFrame ==
    [][ ObserverStep =>
          /\ UNCHANGED << PREVIOUS_READING, DIRECTION, TEST, output >>
          /\ UNCHANGED << isr_pc, levels, grey_code, old_reading, dir >>
          /\ UNCHANGED << net, hist, last_code, last_levels >> ]_vars

\* The observer is between its load and the end of its sleep while a Clockwise
\* invocation stands between its store of DIRECTION and its fetch_add.
C12_Witness ==
    main_pc = "sleep" /\ isr_pc = "count" /\ dir = "Clockwise" /\ net = 2

\* The latest invocation has executed its store of DIRECTION.
DirectionStored ==
    hist # "empty" /\ isr_pc \in {"count", "drive", "idle"}

\* C13 as stated: in no state the observer can read from does DIRECTION hold
\* the current tick's Clockwise or AntiClockwise value while TEST still holds
\* the count from before that tick.
C13_JointUpdate ==
    (main_pc = "loop" /\ DirectionStored /\ dir # "None" /\
     DIRECTION = DirectionCode(dir))
        => (TEST - net) % 256 = 0

\* C13 amended: DIRECTION and TEST are updated by two separate atomic
\* operations, DIRECTION first. Once the store is done DIRECTION holds the
\* tick's value; TEST holds the count from before the tick exactly while the
\* invocation stands before its fetch_add, and counts the tick from then on.
C13_SeparateAtomicUpdates ==
    (DirectionStored /\ dir # "None") =>
        /\ DIRECTION = DirectionCode(dir)
        /\ (isr_pc = "count" => (TEST - (net - Tally(dir))) % 256 = 0)
        /\ (isr_pc # "count" => (TEST - net) % 256 = 0)

\* The observer is about to load while an AntiClockwise invocation has stored
\* DIRECTION = 1 and not yet decremented TEST.
C13_Witness ==
    /\ main_pc = "loop"
    /\ isr_pc = "count"
    /\ dir = "AntiClockwise"
    /\ DIRECTION = 1
    /\ TEST = 0
    /\ net = -1

\* Tally of the ticks whose fetch_add has executed: the current tick is
\* classified at the swap and counted at the fetch_add.
Applied ==
    net - (IF isr_pc \in {"store", "count"} THEN Tally(dir) ELSE 0)

\* Each shared cell holds its initial value or a value one handler step wrote.
WholeValues ==
    /\ PREVIOUS_READING \in 0..3
    /\ PREVIOUS_READING =
         IF isr_pc = "resolve"
         THEN (IF last_code = -1 THEN 0 ELSE last_code)
         ELSE grey_code
    /\ DIRECTION \in {-1, 0, 1}
    /\ (isr_pc # "store" => DIRECTION = DirectionCode(dir))
    /\ TEST \in -128..127
    /\ (TEST - Applied) % 256 = 0

\* C14: whenever the observer loads, wherever the handler stands, the cells
\* hold whole values: PREVIOUS_READING the initial 0 or the latest code
\* swapped in, DIRECTION the initial -1 or a stored direction code, TEST the
\* counter value of the ticks counted so far; and the set of counted ticks
\* only ever grows, by the tick in progress.
C14_WholeReads ==
    [][ /\ ((main_pc = "loop" /\ main_pc' = "sleep") => WholeValues)
        /\ (Applied' # Applied =>
              (isr_pc = "count" /\ Applied' = Applied + Tally(dir))) ]_vars

\* The observer has loaded and not yet finished its sleep while a Clockwise
\* invocation stands between its swap and its store of DIRECTION.
C14_Witness ==
    /\ main_pc = "sleep"
    /\ isr_pc = "store"
    /\ dir = "Clockwise"
    /\ TEST = 1
    /\ net = 2

\* The code the exchange before the current one wrote: 0 before any exchange.
PreviouslyWritten == IF last_code = -1 THEN 0 ELSE last_code

Started == timer_running /\ isr_bound > 0

\* C16: a started timer is never stopped and its handler never unbound; once
\* started, the handler is entered again and again without end, and every
\* invocation reaches its return, whatever main does or fails to do.
C16_RunsForever ==
    /\ [][ (timer_running => timer_running') /\ isr_bound' >= isr_bound ]_vars
    /\ []<>(~Started \/ isr_pc = "resolve")
    /\ []<>(isr_pc = "idle")

\* Invocations have completed on the started timer while main has not yet
\* performed its first load.
C16_Witness ==
    Started /\ Completed /\ main_pc = "loop" /\ net = 3 /\ dir = "Clockwise"

\* Derived tick frequency: baseClock / divider / alarmTicks.
TickFrequency(base, divider, alarm) == (base \div divider) \div alarm

LinesChanged ==
    Cardinality({i \in 1..2 : levels[i] # last_levels[i]})

Opposite(d) ==
    IF d = "Clockwise" THEN "AntiClockwise"
    ELSE IF d = "AntiClockwise" THEN "Clockwise"
    ELSE "None"

\* C18: for two consecutive samples, the handler classifies Clockwise or
\* AntiClockwise when exactly one line changed level and None when neither or
\* both did; the same two samples taken in the other order classify the
\* opposite way.
C18_SingleStepUnambiguous ==
    (isr_pc # "resolve" /\ last_code # -1) =>
        /\ (LinesChanged = 1 => dir \in {"Clockwise", "AntiClockwise"})
        /\ (LinesChanged \in {0, 2} => dir = "None")
        /\ classify(convert_to_greycode(levels[1], levels[2]),
                    convert_to_greycode(last_levels[1], last_levels[2]))
             = Opposite(dir)

\* After (High,Low) only line A changed, to (Low,Low): code 3 to 0, Clockwise.
C18_Witness ==
    /\ isr_pc = "store"
    /\ last_code = 3
    /\ last_levels = << "High", "Low" >>
    /\ levels = << "Low", "Low" >>
    /\ dir = "Clockwise"

\* C19: with no invocation in progress TEST - PREVIOUS_READING is even, and
\* while no tick has skipped two steps TEST is congruent to PREVIOUS_READING
\* modulo 4, the wrap-around of the 8-bit counter included.
C19_CounterTracksPosition ==
    isr_pc = "idle" =>
        /\ (TEST - PREVIOUS_READING) % 2 = 0
        /\ (~skipped => (TEST - PREVIOUS_READING) % 4 = 0)

\* 128 single Clockwise steps from the start: the counter has wrapped to -128
\* and the encoder is back at code 0.
C19_Witness ==
    /\ isr_pc = "idle"
    /\ ~skipped
    /\ hist = "fwd"
    /\ TEST = -128
    /\ PREVIOUS_READING = 0

\* C20: once an invocation that was not AntiClockwise has completed, the
\* output line is high iff the latest such invocation was Clockwise; so after
\* a completed invocation the line is high when DIRECTION encodes Clockwise
\* and low when it encodes None, and either when it encodes AntiClockwise.
C20_OutputFollowsLastNonAntiClockwise ==
    Completed =>
        /\ (last_nonacw # "NoTick" =>
              ((output = "High") <=> (last_nonacw = "Clockwise")))
        /\ (DIRECTION = 0 => output = "High")
        /\ (DIRECTION = -1 => output = "Low")

\* DIRECTION encodes AntiClockwise and the line is still high from the
\* Clockwise tick before.
C20_Witness ==
    /\ Completed
    /\ DIRECTION = 1
    /\ last_nonacw = "Clockwise"
    /\ output = "High"
    /\ net = 0
====
